---- MODULE Spec2Model ----
(***************************************************************************)
(* Token lifecycle of the Fuel Finder SDK (src/src/types.ts):              *)
(* FuelFinderAuthClient (generateAccessToken, regenerateAccessToken, post) *)
(* and FuelFinderClient (getAccessToken, ensureAccessToken, updateCache,   *)
(* authenticatedGet and the four data fetchers).                           *)
(*                                                                         *)
(* Every `await` of the source is a point where another operation's        *)
(* continuation may run; the code between two awaits is one atomic step.   *)
(* The only state shared by operations is FuelFinderClient.tokenCache.     *)
(***************************************************************************)
EXTENDS Integers, Sequences, FiniteSets, TLC

\* ---------------------------------------------------------------- bounds
\* Number of clock steps a behaviour may take.
MaxTicks == 2

\* ------------------------------------------------------ program constants
\* updateCache: Date.now() + data.expires_in * 1000 - 5000
MsPerSec == 1000
BufferMs == 5000
\* synthetic status of a malformed 2xx auth response, client-side timeout
\* status and transport-failure status
MalformedStatus == 500
TimeoutStatus == 408
TransportStatus == 0

\* The clock advances in steps of the safety buffer.
TickMs == BufferMs
MaxNow == MaxTicks * TickMs

\* Concurrent call chains on one client.
Procs == {1, 2}

\* `undefined` of the source (a missing property).
Undefined == "<undefined>"

\* JavaScript truthiness of a string-or-undefined value.
Truthy(v) == v \notin {Undefined, ""}

\* ------------------------------------------------------------ token data
\* AccessTokenData / RefreshAccessTokenData: the four fields of a payload.
Fields(a, t, e, r) ==
  [access_token |-> a, token_type |-> t, expires_in |-> e, refresh_token |-> r]

\* Filler for "no such object"; its fields are never read by the code paths.
NoFields == Fields(Undefined, Undefined, 0, Undefined)

PayloadA == Fields("tokA", "Bearer", 10, "rtA")
PayloadB == Fields("tokB", "Bearer", 5, "rtB")
PayloadC == Fields("tokC", "Bearer", 10, Undefined)
PayloadD == Fields("", Undefined, 0, Undefined)
Payloads == {PayloadA, PayloadB, PayloadC, PayloadD}

\* ------------------------------------------------------------ JSON values
\* A parsed body: null, or an object with an optional `success` key
\* ("absent" | "true" | "false"), an optional `data` object and the token
\* fields that may sit at the top level (the bare refresh shape).
JNull == [t |-> "null", success |-> "absent", hasData |-> FALSE,
          data |-> NoFields, top |-> NoFields]
JObj(s, hd, d, tp) == [t |-> "obj", success |-> s, hasData |-> hd,
                       data |-> d, top |-> tp]
EmptyObj == JObj("absent", FALSE, NoFields, NoFields)
Enveloped(d) == JObj("true", TRUE, d, NoFields)
Bare(d) == JObj("absent", FALSE, NoFields, d)
FailureBody == JObj("false", FALSE, NoFields, NoFields)
NoDataBody == JObj("true", FALSE, NoFields, NoFields)
FalseWithData == JObj("false", TRUE, PayloadA, NoFields)

JsonValues ==
  {JNull, FailureBody, NoDataBody, FalseWithData}
    \cup {Enveloped(d) : d \in Payloads} \cup {Bare(d) : d \in Payloads}

\* Body texts a server can send: the empty text, a text that is not JSON,
\* or the serialisation of a JSON value.
Bodies ==
  {[k |-> "empty", v |-> JNull], [k |-> "notjson", v |-> JNull]}
    \cup {[k |-> "json", v |-> j] : j \in JsonValues}

Statuses == {200, 401}

\* response.ok
IsOk(status) == status >= 200 /\ status <= 299

\* What the injected fetch can do with one request: reject (network
\* failure), be aborted by the timeout timer, or deliver an HTTP response.
EmptyText == [k |-> "empty", v |-> JNull]
NotJson == [k |-> "notjson", v |-> JNull]
Json(j) == [k |-> "json", v |-> j]
Http(status, body) == [t |-> "http", status |-> status, body |-> body]
RejectOutcome == [t |-> "reject", status |-> 0, body |-> EmptyText]
AbortOutcome == [t |-> "abort", status |-> 0, body |-> EmptyText]
NoOutcome == [t |-> "none", status |-> 0, body |-> EmptyText]

\* Every answer to an auth POST: any status with any body text.
AuthOutcomes ==
  {Http(st, b) : st \in Statuses, b \in Bodies} \cup {RejectOutcome, AbortOutcome}

\* One answer of every kind, for the runs with two call chains: the three
\* well-formed payloads (enveloped, and one bare), a malformed 2xx, a null
\* body, a rejection with a JSON body and with a body that is not JSON, a
\* network failure and an abort.
CoreAuthOutcomes ==
  {Http(200, Json(Enveloped(PayloadA))), Http(200, Json(Enveloped(PayloadB))),
   Http(200, Json(Enveloped(PayloadC))), Http(200, Json(Bare(PayloadA))),
   Http(200, Json(FailureBody)), Http(200, Json(JNull)),
   Http(401, Json(FailureBody)), Http(401, NotJson),
   RejectOutcome, AbortOutcome}

\* Answers to a data GET: the envelope of the data endpoints carries no
\* token fields.
StationsBody == JObj("true", TRUE, NoFields, NoFields)
DataOutcomes ==
  {Http(st, b) : st \in Statuses,
                 b \in {EmptyText, NotJson, Json(JNull), Json(StationsBody),
                        Json(FailureBody)}}
    \cup {RejectOutcome, AbortOutcome}
CoreDataOutcomes ==
  {Http(200, Json(StationsBody)), Http(401, Json(FailureBody)), Http(401, NotJson),
   RejectOutcome, AbortOutcome}

\* ----------------------------------------------------------------- errors
\* details of an error: nothing, a parsed body, or an underlying failure.
NoDetails == [k |-> "none", v |-> JNull, cause |-> ""]
BodyDetails(j) == [k |-> "body", v |-> j, cause |-> ""]
CauseDetails(c) == [k |-> "cause", v |-> JNull, cause |-> c]

\* new FuelFinderApiError(message, status, details)
FuelFinderApiError(message, status, details) ==
  [type |-> "FuelFinderApiError", message |-> message, status |-> status,
   details |-> details]

\* A TypeError raised by the runtime (property read of null/undefined).
TypeError(message) ==
  [type |-> "TypeError", message |-> message, status |-> -1, details |-> NoDetails]

\* A plain Error thrown by input validation.
PlainError(message) ==
  [type |-> "Error", message |-> message, status |-> -1, details |-> NoDetails]

NoError == [type |-> "none", message |-> "", status |-> -1, details |-> NoDetails]

\* Result of an asynchronous call: resolved with a value or rejected.
Resolved(j, f) == [ok |-> TRUE, json |-> j, fields |-> f, err |-> NoError]
Rejected(e) == [ok |-> FALSE, json |-> JNull, fields |-> NoFields, err |-> e]

\* ------------------------------------------------- FuelFinderAuthClient
\* FuelFinderAuthClient.post: configured timeout (0: none), the outcome of
\* the fetch; resolves with the parsed body or rejects.
\*   abort            -> FuelFinderApiError 408 "Request timed out after <ms>ms."
\*   fetch rejected   -> FuelFinderApiError 0, details = the failure
\*   body not JSON    -> JSON.parse throws SyntaxError -> FuelFinderApiError 0
\*   status not 2xx   -> FuelFinderApiError status, details = parsed body
\* The body is parsed BEFORE response.ok is looked at.
ParsedBody(body) == IF body.k = "empty" THEN EmptyObj ELSE body.v

\* Mutant of Post: an abort is reported like any other transport failure.
Post_AbortAsTransport(tmo, out) ==
  IF out.t \in {"abort", "reject"}
  THEN Rejected(FuelFinderApiError(
         "Failed to call the Fuel Finder API.", TransportStatus, CauseDetails("NetworkError")))
  ELSE IF out.body.k = "notjson"
  THEN Rejected(FuelFinderApiError(
         "Failed to call the Fuel Finder API.", TransportStatus, CauseDetails("SyntaxError")))
  ELSE IF ~IsOk(out.status)
  THEN Rejected(FuelFinderApiError(
         "Fuel Finder API returned status " \o ToString(out.status) \o ".",
         out.status, BodyDetails(ParsedBody(out.body))))
  ELSE Resolved(ParsedBody(out.body), NoFields)

Post(tmo, out) ==
  IF out.t = "abort"
  THEN Rejected(FuelFinderApiError(
         "Request timed out after " \o ToString(tmo) \o "ms.", TimeoutStatus, NoDetails))
  ELSE IF out.t = "reject"
  THEN Rejected(FuelFinderApiError(
         "Failed to call the Fuel Finder API.", TransportStatus, CauseDetails("NetworkError")))
  ELSE IF out.body.k = "notjson"
  THEN Rejected(FuelFinderApiError(
         "Failed to call the Fuel Finder API.", TransportStatus, CauseDetails("SyntaxError")))
  ELSE IF ~IsOk(out.status)
  THEN Rejected(FuelFinderApiError(
         "Fuel Finder API returned status " \o ToString(out.status) \o ".",
         out.status, BodyDetails(ParsedBody(out.body))))
  ELSE Resolved(ParsedBody(out.body), NoFields)

\* FuelFinderAuthClient.generateAccessToken: `response.success` on a null
\* body is a TypeError raised outside post's try/catch.
GenerateAccessToken(tmo, out) ==
  LET r == Post(tmo, out) IN
  IF ~r.ok THEN r
  ELSE IF r.json.t = "null"
  THEN Rejected(TypeError("Cannot read properties of null (reading 'success')"))
  ELSE IF r.json.success # "true" \/ ~r.json.hasData
  THEN Rejected(FuelFinderApiError(
         "Access token response was missing expected fields.",
         MalformedStatus, BodyDetails(r.json)))
  ELSE Resolved(r.json, r.json.data)

\* Mutant of RegenerateAccessToken: the bare shape is returned unchecked.
RegenerateAccessToken_BareUnchecked(tmo, out) ==
  LET r == Post(tmo, out) IN
  IF ~r.ok THEN r
  ELSE IF r.json.t = "null"
  THEN Rejected(TypeError("Cannot use 'in' operator to search for 'success' in null"))
  ELSE IF r.json.success # "absent"
  THEN IF r.json.success # "true" \/ ~r.json.hasData
       THEN Rejected(FuelFinderApiError(
              "Refresh response was missing expected fields.",
              MalformedStatus, BodyDetails(r.json)))
       ELSE Resolved(r.json, r.json.data)
  ELSE Resolved(r.json, r.json.top)

\* FuelFinderAuthClient.regenerateAccessToken: `"success" in response` on a
\* null body is a TypeError; enveloped and bare shapes are told apart by the
\* presence of the `success` key.
RegenerateAccessToken(tmo, out) ==
  LET r == Post(tmo, out) IN
  IF ~r.ok THEN r
  ELSE IF r.json.t = "null"
  THEN Rejected(TypeError("Cannot use 'in' operator to search for 'success' in null"))
  ELSE IF r.json.success # "absent"
  THEN IF r.json.success # "true" \/ ~r.json.hasData
       THEN Rejected(FuelFinderApiError(
              "Refresh response was missing expected fields.",
              MalformedStatus, BodyDetails(r.json)))
       ELSE Resolved(r.json, r.json.data)
  ELSE IF ~Truthy(r.json.top.access_token)
  THEN Rejected(FuelFinderApiError(
         "Refresh response was missing expected fields.",
         MalformedStatus, BodyDetails(r.json)))
  ELSE Resolved(r.json, r.json.top)

\* ----------------------------------------------------- FuelFinderClient
\* interface TokenCache; `present = FALSE` is tokenCache === undefined.
NoCache == [present |-> FALSE, accessToken |-> Undefined, tokenType |-> Undefined,
            refreshToken |-> Undefined, expiresAt |-> 0, expiresIn |-> 0]

\* Mutant of UpdateCache: the safety buffer is not subtracted.
UpdateCache_NoBuffer(data, t) ==
  [present |-> TRUE,
   accessToken |-> data.access_token,
   tokenType |-> data.token_type,
   refreshToken |-> data.refresh_token,
   expiresAt |-> t + data.expires_in * MsPerSec,
   expiresIn |-> data.expires_in]

\* Mutant of UpdateCache: expires_in is taken as milliseconds.
UpdateCache_NoScale(data, t) ==
  [present |-> TRUE,
   accessToken |-> data.access_token,
   tokenType |-> data.token_type,
   refreshToken |-> data.refresh_token,
   expiresAt |-> t + data.expires_in - BufferMs,
   expiresIn |-> data.expires_in]

\* FuelFinderClient.updateCache: the record installed at instant `t`.
UpdateCache(data, t) ==
  [present |-> TRUE,
   accessToken |-> data.access_token,
   tokenType |-> data.token_type,
   refreshToken |-> data.refresh_token,
   expiresAt |-> t + data.expires_in * MsPerSec - BufferMs,
   expiresIn |-> data.expires_in]

\* Mutant of CacheValid: `>=` for `>`.
CacheValid_NonStrict(c, t) == c.present /\ c.expiresAt >= t

\* ensureAccessToken, line 447: the cached token is still valid.
CacheValid(c, t) == c.present /\ c.expiresAt > t

\* ensureAccessToken, line 452: this.tokenCache?.refreshToken
HasRefreshToken(c) == c.present /\ Truthy(c.refreshToken)

\* Mutant of RefreshedData: refresh_token taken from the response.
RefreshedData_FromResponse(refreshed, c) ==
  Fields(refreshed.access_token, refreshed.token_type, refreshed.expires_in,
         refreshed.refresh_token)

\* ensureAccessToken, lines 458-463: the object handed to updateCache after
\* a refresh; refresh_token is read from the cache, not from the response.
RefreshedData(refreshed, c) ==
  Fields(refreshed.access_token, refreshed.token_type, refreshed.expires_in,
         c.refreshToken)

\* --------------------------------------------------- sinceTime arguments
\* A string is the sequence of its characters.  A Date is its UTC fields
\* (an invalid Date has valid = FALSE and no fields).
Str(cs) == [kind |-> "string", chars |-> cs, valid |-> TRUE,
            utc |-> <<0, 0, 0, 0, 0, 0>>, weekday |-> 0]
DateValue(y, mo, d, h, mi, sec, wd) ==
  [kind |-> "date", chars |-> <<>>, valid |-> TRUE,
   utc |-> <<y, mo, d, h, mi, sec>>, weekday |-> wd]
InvalidDate == [kind |-> "date", chars |-> <<>>, valid |-> FALSE,
                utc |-> <<0, 0, 0, 0, 0, 0>>, weekday |-> 0]
NoArg == [kind |-> "none", chars |-> <<>>, valid |-> TRUE,
          utc |-> <<0, 0, 0, 0, 0, 0>>, weekday |-> 0]

\* "2025-09-05 00:00:00", "2025-09-05", new Date("2025-09-05T00:00:00Z")
\* (a Friday) and new Date("nope"): the arguments of the integration tests.
FullTimestamp == Str(<<"2", "0", "2", "5", "-", "0", "9", "-", "0", "5", " ", "0", "0", ":", "0", "0", ":", "0", "0">>)
DateOnly == Str(<<"2", "0", "2", "5", "-", "0", "9", "-", "0", "5">>)
ValidDate == DateValue(2025, 9, 5, 0, 0, 0, 5)
SinceTimes == {FullTimestamp, DateOnly, ValidDate, InvalidDate}

DigitChars == <<"0", "1", "2", "3", "4", "5", "6", "7", "8", "9">>
Digits2(n) == <<DigitChars[((n \div 10) % 10) + 1], DigitChars[(n % 10) + 1]>>
Digits4(n) == Digits2(n \div 100) \o Digits2(n % 100)
WeekdayNames == <<<<"S", "u", "n">>, <<"M", "o", "n">>, <<"T", "u", "e">>, <<"W", "e", "d">>, <<"T", "h", "u">>, <<"F", "r", "i">>, <<"S", "a", "t">>>>
MonthNames == <<<<"J", "a", "n">>, <<"F", "e", "b">>, <<"M", "a", "r">>, <<"A", "p", "r">>, <<"M", "a", "y">>, <<"J", "u", "n">>, <<"J", "u", "l">>, <<"A", "u", "g">>, <<"S", "e", "p">>, <<"O", "c", "t">>, <<"N", "o", "v">>, <<"D", "e", "c">>>>

\* Date.prototype.toString() with the process in UTC:
\* "Fri Sep 05 2025 00:00:00 GMT+0000 (Coordinated Universal Time)",
\* and "Invalid Date" for an invalid Date.
DateToString(d) ==
  IF ~d.valid THEN <<"I", "n", "v", "a", "l", "i", "d", " ", "D", "a", "t", "e">>
  ELSE WeekdayNames[d.weekday + 1] \o <<" ">> \o MonthNames[d.utc[2]] \o <<" ">>
         \o Digits2(d.utc[3]) \o <<" ">> \o Digits4(d.utc[1]) \o <<" ">>
         \o Digits2(d.utc[4]) \o <<":">> \o Digits2(d.utc[5]) \o <<":">>
         \o Digits2(d.utc[6])
         \o <<" ", "G", "M", "T", "+", "0", "0", "0", "0", " ", "(", "C", "o", "o", "r", "d", "i", "n", "a", "t", "e", "d", " ", "U", "n", "i", "v", "e", "r", "s", "a", "l", " ", "T", "i", "m", "e", ")">>

\* url.searchParams.set(key, value): the value is converted with String();
\* a string is kept as it is, a Date becomes Date.prototype.toString().
QueryValue(a) == IF a.kind = "string" THEN a.chars ELSE DateToString(a)

\* getIncrementalPFSFuelPrices / getIncrementalPFSInfo: the query object
\* { date_time: dateTime } handed to authenticatedGet; nothing is validated.
IncrementalQuery(a) == [has |-> TRUE, date_time |-> QueryValue(a)]
NoQuery == [has |-> FALSE, date_time |-> <<>>]

\* FuelFinderClient.authenticatedGet, lines 524-553: what the GET settles
\* to. Same wrapper as post, but the timeout message has no duration.
AuthenticatedGetResult(out) ==
  IF out.t = "abort"
  THEN Rejected(FuelFinderApiError("Request timed out.", TimeoutStatus, NoDetails))
  ELSE IF out.t = "reject"
  THEN Rejected(FuelFinderApiError(
         "Failed to call the Fuel Finder API.", TransportStatus, CauseDetails("NetworkError")))
  ELSE IF out.body.k = "notjson"
  THEN Rejected(FuelFinderApiError(
         "Failed to call the Fuel Finder API.", TransportStatus, CauseDetails("SyntaxError")))
  ELSE IF ~IsOk(out.status)
  THEN Rejected(FuelFinderApiError(
         "Fuel Finder API returned status " \o ToString(out.status) \o ".",
         out.status, BodyDetails(ParsedBody(out.body))))
  ELSE Resolved(ParsedBody(out.body), NoFields)

\* authenticatedGet, lines 508-522, with tokenCache undefined: the header
\* expression throws a TypeError inside the try, which the catch wraps.
HeaderReadFailure ==
  FuelFinderApiError("Failed to call the Fuel Finder API.", TransportStatus,
                     CauseDetails("TypeError"))

\* Mutant of AuthorizationHeader: the two parts are swapped.
AuthorizationHeader_Swapped(c) == <<c.accessToken, c.tokenType>>

\* Authorization: `${tokenType} ${accessToken}`
AuthorizationHeader(c) == <<c.tokenType, c.accessToken>>
NoHeader == <<>>

\* ------------------------------------------------------------------ state
VARIABLES
  now,          \* Date.now(), in milliseconds
  timeoutMs,    \* options.timeoutMs (0: not configured)
  tokenCache,   \* FuelFinderClient.tokenCache
  pc,           \* per call chain: where it is suspended
  op,           \* per call chain: the public method that was called
  query,        \* per call chain: the query object of authenticatedGet
  authorization, \* per call chain: Authorization header of the GET in flight
  timerAt,      \* per call chain: deadline of the armed abort timer, or -1
  sentAt,       \* per call chain: instant the request in flight was sent
  result,       \* per call chain: how the operation settled
  arg,          \* history: the sinceTime argument of the call
  calls,        \* history: auth calls issued by the current ensure-cycle
  gets,         \* history: GETs sent by the current operation
  refreshFailure, \* history: status of the failed refresh of the cycle
  genOut,       \* history: what the transport answered to a failed auth call
  lastInstall   \* history: the response of the last updateCache, its instant,
                \* and the instant the server issued that response's token

vars == <<now, timeoutMs, tokenCache, pc, op, query, authorization, timerAt, sentAt, result, arg,
          calls, gets, refreshFailure, genOut, lastInstall>>

ManagedOps == {"getAccessToken", "getAllPFSFuelPrices", "getIncrementalPFSFuelPrices",
               "getPFSInfo", "getIncrementalPFSInfo"}
DataOps == ManagedOps \ {"getAccessToken"}
AuthOps == {"generateAccessToken", "regenerateAccessToken"}

NoTimer == 0 - 1
NoFailure == 0 - 2
\* refreshFailure when the refresh call returned a payload but the install
\* threw (this.tokenCache was cleared meanwhile, line 462).
InstallFailure == 0 - 3

NoResult == [kind |-> "none", from |-> "", token |-> Undefined, json |-> JNull,
             fields |-> NoFields, err |-> NoError]
Success(origin, token, j, f) ==
  [kind |-> "value", from |-> origin, token |-> token, json |-> j, fields |-> f,
   err |-> NoError]
Failure(origin, e) ==
  [kind |-> "error", from |-> origin, token |-> Undefined, json |-> JNull,
   fields |-> NoFields, err |-> e]
NoInstall == [resp |-> NoFields, at |-> 0, issued |-> 0]

InFlight(q) == pc[q] \notin {"idle", "done"}

\* The transport can settle the request of call chain p with `out`: the
\* abort needs the armed timer to be due (lines 306-308 and 504-506), and
\* once the deadline has passed the timer has aborted the request, so that
\* no response is delivered any more.
CanSettle(p, out) ==
  IF out.t = "abort"
  THEN timerAt[p] # NoTimer /\ now >= timerAt[p]
  ELSE timerAt[p] = NoTimer \/ now <= timerAt[p]

\* post / authenticatedGet, lines 305-320 and 503-522: arm the timer and
\* send the request.
ArmTimer(p) ==
  /\ timerAt' = [timerAt EXCEPT ![p] = IF timeoutMs # 0 THEN now + timeoutMs ELSE NoTimer]
  /\ sentAt' = [sentAt EXCEPT ![p] = now]

\* finally { clearTimeout(timeout) }
ClearTimer(p) ==
  /\ timerAt' = [timerAt EXCEPT ![p] = NoTimer]
  /\ sentAt' = [sentAt EXCEPT ![p] = 0]

\* The state after construction, with options.timeoutMs = tmo.
Constructed(tmo) ==
  /\ now = 0
  /\ timeoutMs = tmo
  /\ tokenCache = NoCache
  /\ pc = [p \in Procs |-> "idle"]
  /\ op = [p \in Procs |-> "none"]
  /\ query = [p \in Procs |-> NoQuery]
  /\ authorization = [p \in Procs |-> NoHeader]
  /\ timerAt = [p \in Procs |-> NoTimer]
  /\ sentAt = [p \in Procs |-> 0]
  /\ result = [p \in Procs |-> NoResult]
  /\ arg = [p \in Procs |-> NoArg]
  /\ calls = [p \in Procs |-> <<>>]
  /\ gets = [p \in Procs |-> 0]
  /\ refreshFailure = [p \in Procs |-> NoFailure]
  /\ genOut = [p \in Procs |-> NoOutcome]
  /\ lastInstall = NoInstall

\* A client with a timeout configured: every request is answered within
\* the timeout or aborted.
Init == Constructed(TickMs)

\* A client without (0) or with a timeout.
InitOne == \E tmo \in {0, TickMs} : Constructed(tmo)

\* ---------------------------------------------------------------- actions
\* A settled operation hands its result to its caller before anything else
\* runs: the caller's continuation touches no state of the client.
Quiet == \A q \in Procs : pc[q] # "done"

\* Date.now() advances.
Tick ==
  /\ Quiet
  /\ now < MaxNow
  /\ now' = now + TickMs
  /\ UNCHANGED <<timeoutMs, tokenCache, pc, op, query, authorization, timerAt, sentAt, result, arg, calls,
                 gets, refreshFailure, genOut, lastInstall>>

\* ensureAccessToken, lines 471-474: issue the generate call and suspend.
IssueGenerate(p) ==
  /\ pc' = [pc EXCEPT ![p] = "generating"]
  /\ calls' = [calls EXCEPT ![p] = Append(calls[p], "generate")]
  /\ ArmTimer(p)

\* ensureAccessToken, lines 445-457: from the entry of the function to its
\* first await (or to its early return).
EnsureAccessTokenEnter(p) ==
  IF CacheValid(tokenCache, now)
  THEN /\ pc' = [pc EXCEPT ![p] = "ensured"]
       /\ UNCHANGED <<calls, timerAt, sentAt>>
  ELSE IF HasRefreshToken(tokenCache)
  THEN /\ pc' = [pc EXCEPT ![p] = "refreshing"]
       /\ calls' = [calls EXCEPT ![p] = Append(calls[p], "refresh")]
       /\ ArmTimer(p)
  ELSE IssueGenerate(p)

\* A managed operation is called: getAccessToken (line 436) or
\* authenticatedGet (line 501) runs into ensureAccessToken.
CallManaged(p, o, a, q) ==
  /\ Quiet
  /\ pc[p] = "idle"
  /\ op' = [op EXCEPT ![p] = o]
  /\ arg' = [arg EXCEPT ![p] = a]
  /\ query' = [query EXCEPT ![p] = q]
  /\ EnsureAccessTokenEnter(p)
  /\ UNCHANGED <<now, timeoutMs, tokenCache, authorization, result, gets, refreshFailure, genOut,
                 lastInstall>>

GetAccessToken(p) == CallManaged(p, "getAccessToken", NoArg, NoQuery)

GetAllPFSFuelPrices(p) == CallManaged(p, "getAllPFSFuelPrices", NoArg, NoQuery)

GetIncrementalPFSFuelPrices(p, dateTime) ==
  CallManaged(p, "getIncrementalPFSFuelPrices", dateTime, IncrementalQuery(dateTime))

GetPFSInfo(p) == CallManaged(p, "getPFSInfo", NoArg, NoQuery)

GetIncrementalPFSInfo(p, dateTime) ==
  CallManaged(p, "getIncrementalPFSInfo", dateTime, IncrementalQuery(dateTime))

\* Mutant of RefreshCatch: the catch rethrows the refresh error.
RefreshCatch_Rethrow(p, st) ==
  /\ refreshFailure' = [refreshFailure EXCEPT ![p] = st]
  /\ pc' = [pc EXCEPT ![p] = "done"]
  /\ result' = [result EXCEPT ![p] =
       Failure("refresh", FuelFinderApiError("refresh failed", st, NoDetails))]
  /\ ClearTimer(p)
  /\ UNCHANGED <<tokenCache, lastInstall, calls, genOut>>

\* Mutant of RefreshCatch: the catch tries the refresh again.
RefreshCatch_RetryRefresh(p, st) ==
  /\ refreshFailure' = [refreshFailure EXCEPT ![p] = st]
  /\ pc' = [pc EXCEPT ![p] = "refreshing"]
  /\ calls' = [calls EXCEPT ![p] = Append(calls[p], "refresh")]
  /\ ArmTimer(p)
  /\ UNCHANGED <<tokenCache, lastInstall, result, genOut>>

\* ensureAccessToken, lines 465-474: the catch clears the cache and the
\* function goes on to the generate call.
RefreshCatch(p, st) ==
  /\ tokenCache' = NoCache
  /\ lastInstall' = NoInstall
  /\ refreshFailure' = [refreshFailure EXCEPT ![p] = st]
  /\ IssueGenerate(p)
  /\ UNCHANGED <<result, genOut>>

\* Mutant of RefreshInstall: the cached record is patched in place, the
\* access token alone.
RefreshInstall_InPlace(p, refreshed) ==
  /\ tokenCache' = [tokenCache EXCEPT !.accessToken = refreshed.access_token]
  /\ lastInstall' = [resp |-> refreshed, at |-> now, issued |-> sentAt[p]]
  /\ pc' = [pc EXCEPT ![p] = "ensured"]
  /\ ClearTimer(p)
  /\ UNCHANGED <<result, genOut, calls, refreshFailure>>

\* ensureAccessToken, lines 458-464: install the refreshed token, return.
RefreshInstall(p, refreshed) ==
  /\ tokenCache' = UpdateCache(RefreshedData(refreshed, tokenCache), now)
  /\ lastInstall' = [resp |-> refreshed, at |-> now, issued |-> sentAt[p]]
  /\ pc' = [pc EXCEPT ![p] = "ensured"]
  /\ ClearTimer(p)
  /\ UNCHANGED <<result, genOut, calls, refreshFailure>>

\* The refresh call settles and ensureAccessToken resumes (lines 454-468).
RefreshSettled(p, out) ==
  /\ Quiet
  /\ pc[p] = "refreshing"
  /\ CanSettle(p, out)
  /\ LET r == RegenerateAccessToken(timeoutMs, out) IN
       IF r.ok
       THEN IF tokenCache.present
            THEN RefreshInstall(p, r.fields)
            ELSE RefreshCatch(p, InstallFailure)
       ELSE RefreshCatch(p, r.err.status)
  /\ UNCHANGED <<now, timeoutMs, op, query, authorization, arg, gets>>

\* ensureAccessToken, line 475: install the generated token.
GenerateInstall(p, generated) ==
  /\ tokenCache' = UpdateCache(generated, now)
  /\ lastInstall' = [resp |-> generated, at |-> now, issued |-> sentAt[p]]
  /\ pc' = [pc EXCEPT ![p] = "ensured"]
  /\ UNCHANGED <<result, genOut>>

\* Mutant of EnsureRejects: the failed generate call drops the cache.
EnsureRejects_ClearsCache(p, out, e) ==
  /\ pc' = [pc EXCEPT ![p] = "done"]
  /\ result' = [result EXCEPT ![p] = Failure("generate", e)]
  /\ genOut' = [genOut EXCEPT ![p] = out]
  /\ tokenCache' = NoCache
  /\ lastInstall' = NoInstall

\* The generate call rejects: ensureAccessToken rejects, and so does the
\* operation awaiting it (lines 436 and 501 are outside any try).
EnsureRejects(p, out, e) ==
  /\ pc' = [pc EXCEPT ![p] = "done"]
  /\ result' = [result EXCEPT ![p] = Failure("generate", e)]
  /\ genOut' = [genOut EXCEPT ![p] = out]
  /\ UNCHANGED <<tokenCache, lastInstall>>

\* The generate call settles and ensureAccessToken resumes (lines 471-476).
GenerateSettled(p, out) ==
  /\ Quiet
  /\ pc[p] = "generating"
  /\ CanSettle(p, out)
  /\ LET r == GenerateAccessToken(timeoutMs, out) IN
       IF r.ok THEN GenerateInstall(p, r.fields) ELSE EnsureRejects(p, out, r.err)
  /\ ClearTimer(p)
  /\ UNCHANGED <<now, timeoutMs, op, query, authorization, arg, calls, gets, refreshFailure>>

\* getAccessToken, line 437: return this.tokenCache!.accessToken.
GetAccessTokenReturn(p) ==
  /\ Quiet
  /\ pc[p] = "ensured"
  /\ op[p] = "getAccessToken"
  /\ pc' = [pc EXCEPT ![p] = "done"]
  /\ result' = [result EXCEPT ![p] =
       IF tokenCache.present
       THEN Success("read", tokenCache.accessToken, JNull, NoFields)
       ELSE Failure("read", TypeError(
              "Cannot read properties of undefined (reading 'accessToken')"))]
  /\ UNCHANGED <<now, timeoutMs, tokenCache, op, query, authorization, timerAt, sentAt, arg, calls, gets,
                 refreshFailure, genOut, lastInstall>>

\* authenticatedGet, lines 503-522: arm the timer, build the URL and the
\* headers from the cache as it is now, send the GET.
AuthenticatedGetSend(p) ==
  /\ Quiet
  /\ pc[p] = "ensured"
  /\ op[p] \in DataOps
  /\ IF tokenCache.present
     THEN /\ pc' = [pc EXCEPT ![p] = "getting"]
          /\ gets' = [gets EXCEPT ![p] = gets[p] + 1]
          /\ authorization' = [authorization EXCEPT ![p] = AuthorizationHeader(tokenCache)]
          /\ ArmTimer(p)
          /\ UNCHANGED result
     ELSE /\ pc' = [pc EXCEPT ![p] = "done"]
          /\ result' = [result EXCEPT ![p] = Failure("send", HeaderReadFailure)]
          /\ UNCHANGED <<gets, authorization, timerAt, sentAt>>
  /\ UNCHANGED <<now, timeoutMs, tokenCache, op, query, arg, calls, refreshFailure,
                 genOut, lastInstall>>

\* Mutant of GetSettled: a failed GET is sent again.
GetSettled_Retry(p, out) ==
  /\ Quiet
  /\ pc[p] = "getting"
  /\ CanSettle(p, out)
  /\ LET r == AuthenticatedGetResult(out) IN
       /\ result' = [result EXCEPT ![p] =
            IF r.ok THEN Success("get", Undefined, r.json, NoFields) ELSE NoResult]
       /\ pc' = [pc EXCEPT ![p] = IF r.ok THEN "done" ELSE "ensured"]
  /\ authorization' = [authorization EXCEPT ![p] = NoHeader]
  /\ ClearTimer(p)
  /\ UNCHANGED <<now, timeoutMs, tokenCache, op, query, arg, calls, gets,
                 refreshFailure, genOut, lastInstall>>

\* authenticatedGet, lines 524-553: the GET settles.
GetSettled(p, out) ==
  /\ Quiet
  /\ pc[p] = "getting"
  /\ CanSettle(p, out)
  /\ LET r == AuthenticatedGetResult(out) IN
       result' = [result EXCEPT ![p] =
         IF r.ok THEN Success("get", Undefined, r.json, NoFields)
         ELSE Failure("get", r.err)]
  /\ pc' = [pc EXCEPT ![p] = "done"]
  /\ authorization' = [authorization EXCEPT ![p] = NoHeader]
  /\ ClearTimer(p)
  /\ UNCHANGED <<now, timeoutMs, tokenCache, op, query, arg, calls, gets,
                 refreshFailure, genOut, lastInstall>>

\* FuelFinderAuthClient.generateAccessToken / regenerateAccessToken called
\* directly: post issues the request (lines 236 and 264).
CallAuth(p, o) ==
  /\ Quiet
  /\ pc[p] = "idle"
  /\ op' = [op EXCEPT ![p] = o]
  /\ pc' = [pc EXCEPT ![p] = "authcall"]
  /\ ArmTimer(p)
  /\ UNCHANGED <<now, timeoutMs, tokenCache, query, authorization, result, arg, calls, gets,
                 refreshFailure, genOut, lastInstall>>

GenerateAccessTokenCall(p) == CallAuth(p, "generateAccessToken")

RegenerateAccessTokenCall(p) == CallAuth(p, "regenerateAccessToken")

\* The direct auth call settles (lines 244-252 and 272-292).
AuthSettled(p, out) ==
  /\ Quiet
  /\ pc[p] = "authcall"
  /\ CanSettle(p, out)
  /\ LET r == IF op[p] = "generateAccessToken"
                THEN GenerateAccessToken(timeoutMs, out)
                ELSE RegenerateAccessToken(timeoutMs, out) IN
       /\ genOut' = [genOut EXCEPT ![p] = out]
       /\ result' = [result EXCEPT ![p] =
            IF r.ok THEN Success("auth", Undefined, JNull, r.fields)
            ELSE Failure("auth", r.err)]
  /\ pc' = [pc EXCEPT ![p] = "done"]
  /\ ClearTimer(p)
  /\ UNCHANGED <<now, timeoutMs, tokenCache, op, query, authorization, arg, calls, gets,
                 refreshFailure, lastInstall>>

\* The caller has the result; the call chain is over.
Return(p) ==
  /\ pc[p] = "done"
  /\ pc' = [pc EXCEPT ![p] = "idle"]
  /\ op' = [op EXCEPT ![p] = "none"]
  /\ query' = [query EXCEPT ![p] = NoQuery]
  /\ result' = [result EXCEPT ![p] = NoResult]
  /\ arg' = [arg EXCEPT ![p] = NoArg]
  /\ calls' = [calls EXCEPT ![p] = <<>>]
  /\ gets' = [gets EXCEPT ![p] = 0]
  /\ refreshFailure' = [refreshFailure EXCEPT ![p] = NoFailure]
  /\ genOut' = [genOut EXCEPT ![p] = NoOutcome]
  /\ UNCHANGED <<now, timeoutMs, tokenCache, authorization, timerAt, sentAt, lastInstall>>

\* Two call chains on one client, the token getter and a data fetcher, one
\* transport answer of every kind.
Next ==
  \/ Tick
  \/ \E p \in Procs : GetAccessToken(p)
  \/ \E p \in Procs : GetAllPFSFuelPrices(p)
  \/ \E p \in Procs : \E out \in CoreAuthOutcomes : RefreshSettled(p, out)
  \/ \E p \in Procs : \E out \in CoreAuthOutcomes : GenerateSettled(p, out)
  \/ \E p \in Procs : GetAccessTokenReturn(p)
  \/ \E p \in Procs : AuthenticatedGetSend(p)
  \/ \E p \in Procs : \E out \in CoreDataOutcomes : GetSettled(p, out)
  \/ \E p \in Procs : Return(p)

Spec == Init /\ [][Next]_vars

\* One call chain at a time (no other operation is ever in flight), every
\* operation of both clients, every sinceTime argument, every transport
\* answer.
NextOne ==
  \/ Tick
  \/ \E p \in {1} : GetAccessToken(p)
  \/ \E p \in {1} : GetAllPFSFuelPrices(p)
  \/ \E p \in {1} : \E a \in SinceTimes : GetIncrementalPFSFuelPrices(p, a)
  \/ \E p \in {1} : GetPFSInfo(p)
  \/ \E p \in {1} : \E a \in SinceTimes : GetIncrementalPFSInfo(p, a)
  \/ \E p \in {1} : \E out \in AuthOutcomes : RefreshSettled(p, out)
  \/ \E p \in {1} : \E out \in AuthOutcomes : GenerateSettled(p, out)
  \/ \E p \in {1} : GetAccessTokenReturn(p)
  \/ \E p \in {1} : AuthenticatedGetSend(p)
  \/ \E p \in {1} : \E out \in DataOutcomes : GetSettled(p, out)
  \/ \E p \in {1} : GenerateAccessTokenCall(p)
  \/ \E p \in {1} : RegenerateAccessTokenCall(p)
  \/ \E p \in {1} : \E out \in AuthOutcomes : AuthSettled(p, out)
  \/ \E p \in {1} : Return(p)

SpecOne == InitOne /\ [][NextOne]_vars

\* ------------------------------------------------------------ properties
\* The record the cache must hold after installing payload `d` at instant
\* `at` with refresh token `rt`: expiresAt = at + expires_in*1000 - 5000.
ExpectedCache(d, at, rt) ==
  [present |-> TRUE, accessToken |-> d.access_token, tokenType |-> d.token_type,
   refreshToken |-> rt, expiresAt |-> at + d.expires_in * 1000 - 5000,
   expiresIn |-> d.expires_in]

\* A managed operation is called by p in this step.
Calls(p) == pc[p] = "idle" /\ pc'[p] \notin {"idle", "authcall"}

Refresh == <<"refresh">>
RefreshThenGenerate == <<"refresh", "generate">>

\* C1 (one call chain at a time). A cycle that starts with a cached token at
\* or past expiresAt and a refresh token issues exactly one refresh call; if
\* it fails exactly one generate call follows, and when that succeeds the
\* cache is the generate result installed at that instant; no auth call is
\* issued once the cycle is over.
C1_Step ==
  \A p \in Procs :
    /\ (Calls(p) /\ tokenCache.present /\ tokenCache.expiresAt <= now
          /\ Truthy(tokenCache.refreshToken))
         => (pc'[p] = "refreshing" /\ calls'[p] = Refresh)
    /\ (pc[p] = "refreshing" /\ pc'[p] # "refreshing")
         => \/ /\ pc'[p] = "ensured"
               /\ calls'[p] = Refresh
               /\ refreshFailure'[p] = NoFailure
            \/ /\ pc'[p] = "generating"
               /\ calls'[p] = RefreshThenGenerate
               /\ refreshFailure'[p] # NoFailure
    /\ (pc[p] = "generating" /\ calls[p] = RefreshThenGenerate /\ pc'[p] # "generating")
         => /\ calls'[p] = RefreshThenGenerate
            /\ \/ pc'[p] = "done" /\ result'[p].kind = "error"
               \/ /\ pc'[p] = "ensured"
                  /\ lastInstall'.at = now
                  /\ tokenCache' = ExpectedCache(lastInstall'.resp, now,
                                                 lastInstall'.resp.refresh_token)
    /\ (pc[p] \in {"ensured", "getting"}) => calls'[p] = calls[p]

C1_OneRefreshThenOneGenerate == [][C1_Step]_vars

C1_Witness ==
  \E p \in Procs :
    /\ pc[p] = "ensured"
    /\ calls[p] = RefreshThenGenerate
    /\ refreshFailure[p] = 401
    /\ tokenCache = ExpectedCache(PayloadA, now, "rtA")

\* C2 (one call chain at a time). A cycle that starts with a cache whose
\* expiresAt is strictly greater than now goes on without any auth call and
\* leaves the cache as it is; with expiresAt = now, or no cache, it issues
\* an auth call. getAccessToken then returns the cached token.
C2_Step ==
  \A p \in Procs :
    /\ Calls(p)
         => IF tokenCache.present /\ tokenCache.expiresAt > now
            THEN pc'[p] = "ensured" /\ calls'[p] = <<>> /\ tokenCache' = tokenCache
            ELSE calls'[p] # <<>>
    /\ (pc[p] \in {"ensured", "getting"} /\ calls[p] = <<>>)
         => (calls'[p] = <<>> /\ tokenCache' = tokenCache)
    /\ (pc[p] = "ensured" /\ calls[p] = <<>> /\ op[p] = "getAccessToken"
          /\ pc'[p] = "done")
         => (result'[p].kind = "value" /\ result'[p].token = tokenCache.accessToken)

C2_ValidCacheIsReused == [][C2_Step]_vars

C2_Witness ==
  \E p \in Procs :
    /\ pc[p] = "done"
    /\ op[p] = "getAccessToken"
    /\ calls[p] = <<>>
    /\ result[p].token = "tokA"
    /\ tokenCache.expiresAt > now

\* C3 (two call chains). Every ensure-cycle issues nothing, one refresh, one
\* generate, or one refresh followed by one generate.
C3_AtMostTwoAuthCalls ==
  \A p \in Procs :
    calls[p] \in {<<>>, Refresh, <<"generate">>, RefreshThenGenerate}

C3_Witness ==
  \E p \in Procs : \E q \in Procs \ {p} :
    /\ calls[p] = RefreshThenGenerate
    /\ calls[q] = RefreshThenGenerate
    /\ pc[p] = "ensured"
    /\ pc[q] = "generating"

\* C4 (two call chains). No operation fails with the error of a refresh
\* call: after a failed refresh the cycle has gone on to the generate call,
\* and when the cycle fails, the error is the one of that generate call.
C4_RefreshFailureIsSwallowed ==
  \A p \in Procs :
    /\ result[p].kind = "error" => result[p].from # "refresh"
    /\ refreshFailure[p] # NoFailure
         => /\ calls[p] = RefreshThenGenerate
            /\ pc[p] \in {"generating", "ensured", "getting", "done"}
            /\ (pc[p] = "done" /\ result[p].from = "generate")
                 => /\ result[p].kind = "error"
                    /\ result[p].err = GenerateAccessToken(timeoutMs, genOut[p]).err

C4_Witness ==
  \E p \in Procs :
    /\ refreshFailure[p] = 408
    /\ pc[p] = "done"
    /\ result[p].from = "generate"
    /\ result[p].err.status = 401

\* C5 (two call chains). A successful refresh replaces the cache by the
\* access token, token type and expiry of the refresh response, installed at
\* that instant; when the response has no refresh_token, the refresh token
\* is the one cached before.
C5_Step ==
  \A p \in Procs :
    (pc[p] = "refreshing" /\ pc'[p] = "ensured")
      => /\ lastInstall'.at = now
         /\ tokenCache' = ExpectedCache(lastInstall'.resp, now, tokenCache'.refreshToken)
         /\ lastInstall'.resp.refresh_token = Undefined
              => tokenCache'.refreshToken = tokenCache.refreshToken

C5_RefreshReplacesCache == [][C5_Step]_vars

C5_Witness ==
  /\ tokenCache.present
  /\ lastInstall.resp = PayloadC
  /\ tokenCache.accessToken = "tokC"
  /\ tokenCache.refreshToken = "rtA"

\* C6 (two call chains). The cache is absent, or a whole record whose access
\* token, token type, expiresIn and expiresAt are those of one auth response
\* installed at one instant.
C6_CacheIsWhole ==
  \/ tokenCache = NoCache
  \/ tokenCache = ExpectedCache(lastInstall.resp, lastInstall.at, tokenCache.refreshToken)

\* Both call chains have each issued their own generate call for the same
\* missing token, and a cache is installed.
C6_Witness ==
  \E p \in Procs : \E q \in Procs \ {p} :
    /\ calls[p] = <<"generate">>
    /\ calls[q] = <<"generate">>
    /\ pc[p] = "ensured"
    /\ pc[q] = "ensured"
    /\ tokenCache.present

IncrementalOps == {"getIncrementalPFSFuelPrices", "getIncrementalPFSInfo"}

\* The exact pattern YYYY-MM-DD HH:MM:SS over a sequence of characters.
MatchesTimestampPattern(cs) ==
  /\ Len(cs) = 19
  /\ \A i \in 1..19 :
       IF i \in {5, 8} THEN cs[i] = "-"
       ELSE IF i = 11 THEN cs[i] = " "
       ELSE IF i \in {14, 17} THEN cs[i] = ":"
       ELSE \E d \in 1..10 : cs[i] = DigitChars[d]

\* C7 (one call chain at a time), the claim: when the server answers the
\* generate call with a non-2xx status, generateAccessToken, getAccessToken
\* and the data fetchers fail with a FuelFinderApiError whose status is that
\* status (never 0) and whose details is the parsed body.
C7_RejectionKeepsHttpStatus ==
  \A p \in Procs :
    (/\ pc[p] = "done"
     /\ op[p] \in ManagedOps \cup {"generateAccessToken"}
     /\ result[p].from \in {"generate", "auth"}
     /\ genOut[p].t = "http"
     /\ ~IsOk(genOut[p].status))
      => /\ result[p].kind = "error"
         /\ result[p].err.type = "FuelFinderApiError"
         /\ result[p].err.status = genOut[p].status
         /\ result[p].err.status # 0
         /\ result[p].err.details.k = "body"

\* C8 (one call chain at a time), the claim: an incremental fetcher called
\* with a string that does not match YYYY-MM-DD HH:MM:SS has failed with
\* "Invalid timestamp format for effective-start-timestamp." without any
\* auth call or GET.
C8_BadTimestampStringIsRejected ==
  \A p \in Procs :
    (/\ op[p] \in IncrementalOps
     /\ arg[p].kind = "string"
     /\ ~MatchesTimestampPattern(arg[p].chars))
      => /\ pc[p] = "done"
         /\ result[p].kind = "error"
         /\ result[p].err.message = "Invalid timestamp format for effective-start-timestamp."
         /\ calls[p] = <<>>
         /\ gets[p] = 0

\* C9 (one call chain at a time), the claim: an incremental fetcher called
\* with an invalid Date has failed with "Invalid Date provided for
\* effective-start-timestamp." without any auth call or GET.
C9_InvalidDateIsRejected ==
  \A p \in Procs :
    (/\ op[p] \in IncrementalOps
     /\ arg[p].kind = "date"
     /\ ~arg[p].valid)
      => /\ pc[p] = "done"
         /\ result[p].kind = "error"
         /\ result[p].err.message = "Invalid Date provided for effective-start-timestamp."
         /\ calls[p] = <<>>
         /\ gets[p] = 0

\* C10 (one call chain at a time), the claim: every failure of an operation
\* is a FuelFinderApiError of one of the four kinds (real non-2xx status,
\* 408 timeout, 0 transport failure, synthetic 500), and a failed operation
\* carries no data.
C10_EveryFailureIsApiError ==
  \A p \in Procs :
    result[p].kind = "error"
      => /\ result[p].err.type = "FuelFinderApiError"
         /\ \/ result[p].err.status \in {TransportStatus, TimeoutStatus, MalformedStatus}
            \/ result[p].err.status \in Statuses /\ ~IsOk(result[p].err.status)
         /\ result[p].token = Undefined
         /\ result[p].json = JNull
         /\ result[p].fields = NoFields

\* The error of a timed-out auth POST and of a timed-out data GET.
PostTimeout ==
  FuelFinderApiError("Request timed out after " \o ToString(timeoutMs) \o "ms.", 408, NoDetails)
GetTimeout == FuelFinderApiError("Request timed out.", 408, NoDetails)

\* The abort timer of p's request has fired.
TimerDue(p) == timeoutMs # 0 /\ timerAt[p] # NoTimer /\ now >= timerAt[p]

\* The step leaves every other call chain as it is.
OthersUntouched(p) ==
  \A q \in Procs \ {p} :
    /\ pc'[q] = pc[q]
    /\ timerAt'[q] = timerAt[q]
    /\ result'[q] = result[q]
    /\ calls'[q] = calls[q]

\* C11 (two call chains, timeout configured). A request aborted by its timer
\* fails with FuelFinderApiError 408, "Request timed out after <ms>ms." for
\* an auth POST and "Request timed out." for a data GET; the abort touches no
\* other call chain; and a 408 is only ever reported for a request whose own
\* timer was due.
C11_Step ==
  \A p \in Procs :
    /\ GenerateSettled(p, AbortOutcome)
         => /\ pc'[p] = "done"
            /\ result'[p] = Failure("generate", PostTimeout)
            /\ OthersUntouched(p)
    /\ RefreshSettled(p, AbortOutcome)
         => /\ refreshFailure'[p] = 408
            /\ OthersUntouched(p)
    /\ GetSettled(p, AbortOutcome)
         => /\ pc'[p] = "done"
            /\ result'[p] = Failure("get", GetTimeout)
            /\ OthersUntouched(p)
    /\ (result'[p] # result[p] /\ result'[p].kind = "error" /\ result'[p].err.status = 408)
         => /\ TimerDue(p)
            /\ result'[p].err \in {PostTimeout, GetTimeout}
    /\ (refreshFailure'[p] = 408 /\ refreshFailure[p] # 408) => TimerDue(p)

C12_CachedTokenIsNonEmpty ==
  tokenCache.present
    => /\ Truthy(tokenCache.accessToken)
       /\ Truthy(tokenCache.tokenType)

\* The instant at which the server stops accepting the cached token: the
\* instant it issued the token plus expires_in seconds.
ServerExpiry == lastInstall.issued + lastInstall.resp.expires_in * 1000

\* C13 (one call chain at a time), the claim: whenever an ensure-cycle reuses
\* the cached token without an auth call, the current time is strictly
\* earlier than the token's server-side expiry, whatever the delay between
\* the server issuing the token and the client installing it.
C13_Step ==
  \A p \in Procs :
    (Calls(p) /\ pc'[p] = "ensured" /\ calls'[p] = <<>>)
      => now < ServerExpiry

C13_ReuseBeforeServerExpiry == [][C13_Step]_vars

\* A valid Date formatted in UTC as YYYY-MM-DD HH:MM:SS; a string that is
\* already in that format stands for itself.
FormatUtc(a) ==
  IF a.kind = "string" THEN a.chars
  ELSE Digits4(a.utc[1]) \o <<"-">> \o Digits2(a.utc[2]) \o <<"-">> \o Digits2(a.utc[3])
         \o <<" ">> \o Digits2(a.utc[4]) \o <<":">> \o Digits2(a.utc[5]) \o <<":">>
         \o Digits2(a.utc[6])

ValidSinceTime(a) ==
  \/ a.kind = "date" /\ a.valid
  \/ a.kind = "string" /\ MatchesTimestampPattern(a.chars)

\* C14 (one call chain at a time), the claim: the GET of an incremental
\* fetcher called with a valid date/time value carries date_time = that
\* instant formatted in UTC as YYYY-MM-DD HH:MM:SS, and formatting the value
\* again gives the same string.
C14_DateTimeIsFormattedUtc ==
  \A p \in Procs :
    (pc[p] = "getting" /\ op[p] \in IncrementalOps /\ ValidSinceTime(arg[p]))
      => /\ query[p].has
         /\ query[p].date_time = FormatUtc(arg[p])
         /\ MatchesTimestampPattern(query[p].date_time)
         /\ IncrementalQuery(arg[p]) = query[p]

\* The synthetic errors of a 2xx auth response without the expected fields.
MissingFields(j) ==
  FuelFinderApiError("Access token response was missing expected fields.", 500, BodyDetails(j))
RefreshMissingFields(j) ==
  FuelFinderApiError("Refresh response was missing expected fields.", 500, BodyDetails(j))

\* A direct auth call of p has settled on a 2xx response whose body parses to
\* a JSON object.
SettledOnObject(p) ==
  /\ pc[p] = "done"
  /\ result[p].from = "auth"
  /\ genOut[p].t = "http"
  /\ IsOk(genOut[p].status)
  /\ genOut[p].body.k # "notjson"
  /\ ParsedBody(genOut[p].body).t = "obj"

C16_Step ==
  \A p \in Procs :
    /\ (op'[p] = "getAccessToken" /\ pc[p] # "ensured" /\ pc'[p] = "ensured")
         => /\ tokenCache'.present
            /\ tokenCache'.expiresAt > now
    /\ (op[p] = "getAccessToken" /\ pc[p] = "ensured" /\ pc'[p] = "done")
         => /\ result'[p].kind = "value"
            /\ tokenCache.present
            /\ result'[p].token = tokenCache.accessToken

C16_ResolvedTokenIsValid == [][C16_Step]_vars

\* C17 (two call chains), the claim: when an operation whose ensure-cycle has
\* completed reads the cache (getAccessToken returning the token,
\* authenticatedGet building the Authorization header), the cache is
\* present.
C17_Step ==
  \A p \in Procs :
    (pc[p] = "ensured" /\ pc'[p] # "ensured") => tokenCache.present

C17_CachePresentAtRead == [][C17_Step]_vars

\* C18 (two call chains), the claim: a cycle whose refresh call returned a
\* valid payload installs that payload and issues no generate call; a cycle
\* issues the generate call only when it attempted no refresh or its
\* refresh call failed.
C18_Step ==
  \A p \in Procs :
    /\ \A out \in CoreAuthOutcomes :
         (RefreshSettled(p, out) /\ RegenerateAccessToken(timeoutMs, out).ok)
           => /\ pc'[p] = "ensured"
              /\ calls'[p] = Refresh
              /\ tokenCache'.present
              /\ tokenCache'.accessToken =
                   RegenerateAccessToken(timeoutMs, out).fields.access_token
    /\ (pc[p] # "generating" /\ pc'[p] = "generating")
         => \/ pc[p] = "idle"
            \/ /\ pc[p] = "refreshing"
               /\ \E out \in CoreAuthOutcomes :
                    RefreshSettled(p, out) /\ ~RegenerateAccessToken(timeoutMs, out).ok

C18_GenerateOnlyAfterFailedRefresh == [][C18_Step]_vars

\* C19 (two call chains). A GET is sent only by a data fetcher whose
\* ensure-cycle has completed and carries Authorization: <tokenType>
\* <accessToken> of the cache as it is at that step; while the cycle runs no
\* GET has been sent; and when the cycle fails, the operation fails with the
\* error of the generate call without any GET.
C19_Step ==
  \A p \in Procs :
    /\ gets'[p] > gets[p]
         => /\ pc[p] = "ensured"
            /\ pc'[p] = "getting"
            /\ op[p] \in DataOps
            /\ gets[p] = 0
            /\ tokenCache.present
            /\ authorization'[p] = <<tokenCache.tokenType, tokenCache.accessToken>>
    /\ pc[p] \in {"refreshing", "generating"} => gets[p] = 0 /\ gets'[p] = 0
    /\ (pc[p] = "generating" /\ pc'[p] = "done")
         => /\ result'[p] = Failure("generate", GenerateAccessToken(timeoutMs, genOut'[p]).err)
            /\ authorization'[p] = NoHeader
    /\ pc'[p] = "getting" => (gets'[p] = 1 /\ authorization'[p] # NoHeader)

C19_GetAfterEnsure == [][C19_Step]_vars

\* A GET is in flight with the token that was cached when it was sent, while
\* the cache has since been replaced by the other call chain.
C19_Witness ==
  \E p \in Procs :
    /\ pc[p] = "getting"
    /\ authorization[p] = <<"Bearer", "tokA">>
    /\ tokenCache.present
    /\ tokenCache.accessToken = "tokB"

\* C20 (one call chain at a time). A present cache is only ever replaced by
\* a whole new cache, except by the failure of a refresh, which leaves it
\* absent. A cycle that goes to the generate call without a refresh leaves
\* the cache as it was from its start until the generate call settles, and
\* a failure of that call leaves it as it was. After a failed refresh the
\* cache is absent, and it is still absent when the generate call fails.
C20_Step ==
  /\ (tokenCache.present /\ tokenCache' # tokenCache)
       => \E p \in Procs :
            \/ tokenCache'.present /\ pc[p] # "ensured" /\ pc'[p] = "ensured"
            \/ tokenCache' = NoCache /\ pc[p] = "refreshing" /\ pc'[p] = "generating"
  /\ \A p \in Procs :
    /\ (Calls(p) /\ pc'[p] = "generating") => tokenCache' = tokenCache
    /\ (pc[p] = "generating" /\ pc'[p] # "ensured") => tokenCache' = tokenCache
    /\ (pc[p] = "refreshing" /\ pc'[p] = "generating") => tokenCache' = NoCache
    /\ (pc[p] = "generating" /\ calls[p] = RefreshThenGenerate) => tokenCache = NoCache
    /\ (pc[p] = "generating" /\ calls[p] = RefreshThenGenerate /\ pc'[p] = "done")
         => tokenCache' = NoCache

C20_FailedGenerateKeepsCache == [][C20_Step]_vars

\* A generate call without a refresh has failed, and the stale cache without
\* refresh token that was there before the cycle is still there.
C20_Witness ==
  \E p \in Procs :
    /\ pc[p] = "done"
    /\ calls[p] = <<"generate">>
    /\ result[p].kind = "error"
    /\ tokenCache.present
    /\ tokenCache.accessToken = "tokC"
    /\ tokenCache.refreshToken = Undefined
    /\ tokenCache.expiresAt <= now

\* C21 (one call chain at a time), the claim: the cache installed by a
\* successful refresh holds the refresh_token of the response when the
\* response carries one, and the refresh token cached before only when the
\* response omits it.
C21_Step ==
  \A p \in Procs :
    (pc[p] = "refreshing" /\ pc'[p] = "ensured")
      => tokenCache'.refreshToken =
           IF Truthy(lastInstall'.resp.refresh_token)
           THEN lastInstall'.resp.refresh_token
           ELSE tokenCache.refreshToken

C21_RefreshTokenIsRotated == [][C21_Step]_vars

\* C22 (one call chain at a time). A data fetcher sends at most one GET;
\* from the moment the GET is sent the operation issues no auth call and
\* leaves the cache as it is; and whatever the transport answers (2xx, 401,
\* a body that is not JSON, a network failure, an abort), the operation is
\* over with the result of that GET.
C22_Step ==
  \A p \in Procs :
    /\ gets'[p] <= 1
    /\ pc[p] = "getting"
         => /\ calls'[p] = calls[p]
            /\ gets'[p] = gets[p]
            /\ tokenCache' = tokenCache
            /\ pc'[p] \in {"getting", "done"}
    /\ \A out \in DataOutcomes :
         GetSettled(p, out)
           => /\ pc'[p] = "done"
              /\ result'[p].from = "get"
              /\ result'[p].kind = IF AuthenticatedGetResult(out).ok THEN "value" ELSE "error"
    /\ (pc[p] = "done" /\ op[p] \in DataOps)
         => (pc'[p] \in {"done", "idle"} /\ tokenCache' = tokenCache /\ gets'[p] <= gets[p])

C22_GetIsNotRetried == [][C22_Step]_vars

\* A GET was answered 401: the operation is over after that one GET, and
\* the still valid cache is in place.
C22_Witness ==
  \E p \in Procs :
    /\ pc[p] = "done"
    /\ op[p] = "getPFSInfo"
    /\ gets[p] = 1
    /\ result[p].from = "get"
    /\ result[p].err.status = 401
    /\ tokenCache.present
    /\ tokenCache.expiresAt > now

\* C23 (one call chain at a time, every expires_in). Every step that
\* completes an ensure-cycle with an auth call, after a generate and after
\* a refresh alike, installs a cache whose expiresIn is the expires_in of
\* the response and whose expiresAt is the instant of that step plus
\* expires_in * 1000 - 5000 milliseconds.
C23_Step ==
  \A p \in Procs :
    (pc[p] \in {"generating", "refreshing"} /\ pc'[p] = "ensured")
      => /\ tokenCache'.present
         /\ lastInstall'.at = now
         /\ tokenCache'.expiresIn = lastInstall'.resp.expires_in
         /\ tokenCache'.expiresAt = now + lastInstall'.resp.expires_in * 1000 - 5000

C23_InstallComputesExpiry == [][C23_Step]_vars

\* A refresh answered at 5000 ms with expires_in = 5 has been installed:
\* expiresAt = 5000 + 5 * 1000 - 5000.
C23_Witness ==
  \E p \in Procs :
    /\ pc[p] = "ensured"
    /\ calls[p] = Refresh
    /\ now = 5000
    /\ lastInstall.resp.expires_in = 5
    /\ tokenCache.expiresIn = 5
    /\ tokenCache.expiresAt = 5000

====
